---- MODULE Spec2Model ----
(***************************************************************************)
(* A model of BioSimSpace's NamdProcess (Sample/namd_process.py): the      *)
(* constructor with its _setup and _generate_config_file, and start().     *)
(* The filesystem, the current working directory and the process object's  *)
(* attributes are the state; every call is one action, and an exception    *)
(* raised inside a call ends that call where Python ends it.               *)
(***************************************************************************)
EXTENDS Integers, Sequences, FiniteSets, TLC

VARIABLES
    fs,         \* the filesystem: path -> sequence of lines
    cwd,        \* the interpreter's current working directory
    phase,      \* "new" | "constructed" | "failed": outcome of NamdProcess(...)
    args,       \* the arguments of the constructor call
    self,       \* the object's attributes: name -> value (assigned ones only)
    error,      \* the exception the last call raised, or "none"
    genCalls,   \* calls of _generate_config_file so far
    cfgOpens,   \* times the config file was opened for writing
    launches,   \* the engine invocations start() made, oldest first
    lastStart,  \* [before, after, raised] of the last start() call
    lastGet,    \* the last getSystem() call: what it found and what it returned
    align       \* a matchAtoms call: the molecules, the prematch and the outcome

vars == <<fs, cwd, phase, args, self, error, genCalls, cfgOpens, launches, lastStart,
          lastGet, align>>

----------------------------------------------------------------------------
(* Bounds of the model. *)

MaxPsfLines == 2        \* lines of the topology file Sire writes
MaxRuntime == 2         \* equilibration runtimes, in units of 0.001
MaxStarts == 2          \* consecutive start() calls

----------------------------------------------------------------------------
(* Values. *)

NoneV == [kind |-> "None"]

Path(d, s, e) == [kind |-> "path", dir |-> d, stem |-> s, ext |-> e]

\* "%s/%s.<ext>" % (work_dir, name)
Join(d, n, e) == Path(d, n, e)

\* os.path.splitext(p)[0] + ext: the last extension replaced
ReplaceExt(p, e) == [p EXCEPT !.ext = e]

\* A file name the engine resolves against its own working directory.
Rel(n, e) == [stem |-> n, ext |-> e]

Resolve(d, r) == Path(d, r.stem, r.ext)

Dirs == {"home", "wd"}
WorkDirs == {"wd"}
Names == {"namd", "sim"}

ExeOk == Path("opt", "namd2", "")
ExeMissing == Path("opt", "nonesuch", "")
CfgOk == Path("home", "custom", "namd")
CfgMissing == Path("home", "absent", "namd")
PathNamd2 == Path("usr", "namd2", "")

\* The type tags of ProtocolType.
ProtocolType == {"MINIMISATION", "EQUILIBRATION", "CUSTOM"}

Temps == {0, 300}

Minimisations ==
    [type : {"MINIMISATION"}, steps : {1000}, temperature : {300}]

Equilibrations ==
    [type : {"EQUILIBRATION"}, temperature_start : Temps, temperature_end : Temps,
     runtime : 0..MaxRuntime, is_restrained : BOOLEAN]

Customs == [type : {"CUSTOM"}, file : {CfgOk, CfgMissing}]

Protocols == Minimisations \cup Equilibrations \cup Customs

\* The lines a topology file can hold, by the record tag they carry.
PsfTags == {"PSF", "!NDON", "!NACC", "!NNB"}

\* A line Sire wrote: a section header carries the count of its records.
PsfLine(t) == [tag |-> t, count |-> [width |-> 8, value |-> 1]]

SeqsUpTo(S, n) == UNION {[1..k -> S] : k \in 0..n}

PsfContents == SeqsUpTo({PsfLine(t) : t \in PsfTags}, MaxPsfLines)

\* A molecular system, as far as the process looks at it.
Systems == [velocities : BOOLEAN, psf : PsfContents]

----------------------------------------------------------------------------
(* The filesystem. *)

isfile(f, p) == p \in DOMAIN f

WriteFile(f, p, lines) == [q \in DOMAIN f \cup {p} |-> IF q = p THEN lines ELSE f[q]]

AppendFile(f, p, lines) == WriteFile(f, p, (IF isfile(f, p) THEN f[p] ELSE <<>>) \o lines)

InitFs == [p \in {ExeOk, PathNamd2, CfgOk} |-> <<>>]

----------------------------------------------------------------------------
(* Python's name and attribute lookup. *)

\* The names the module binds (its imports).
ModuleNames ==
    {"Sire", "process", "Protocol", "ProtocolType", "redirect_stdout", "ceil",
     "warn", "main", "os", "NamdProcess"}

InitLocals == {"self", "system", "protocol", "exe", "name", "work_dir"}

MethodLocals == {"self"}

Bound(n, locals) == n \in locals \cup ModuleNames

HasAttr(s, a) == a \in DOMAIN s.self

SetAttr(s, a, v) == [s EXCEPT !.self = (a :> v) @@ s.self]

Raise(s, e) == [s EXCEPT !.err = e]

Ok(s) == s.err = "none"

----------------------------------------------------------------------------
(* Collaborators outside the class. *)

\* process.Process.__init__(system, protocol, name, work_dir): keeps its
\* arguments; a protocol that is a path to a file is a custom configuration.
ProcessInit(a, f) ==
    [self |-> ("_system" :> a.system) @@ ("_protocol" :> a.protocol)
              @@ ("_name" :> a.name) @@ ("_work_dir" :> a.work_dir)
              @@ ("_is_custom" :> (a.protocol.type = "CUSTOM")),
     fs |-> f, err |-> "none", gen |-> 0, opens |-> 0]

\* process._compute_box_size(system): (box_size, origin)
compute_box_size(sys) == <<"box_size", "origin">>

\* Sire.Base.findExe("namd2").absoluteFilePath()
findExe(f) == PathNamd2

\* "%<w>d" % n, for n >= 0: right-justified in a field of w characters.
Digits(n) == IF n < 10 THEN 1 ELSE IF n < 100 THEN 2 ELSE IF n < 1000 THEN 3 ELSE 4

FmtD(w, n) == [width |-> IF Digits(n) > w THEN Digits(n) ELSE w, value |-> n]

\* The text of a line carrying tag t contains pat ("pat in line").
Contains(line, pat) ==
    CASE line = "!NDON" -> pat \in {"!NDON", "NDON"}
      [] line = "!NACC" -> pat \in {"!NACC", "NACC"}
      [] line = "!NNB" -> pat \in {"!NNB", "NNB"}
      [] OTHER -> FALSE

\* f.readline() on a freshly opened file: the first line, "" at end of file.
readline(f, p) == IF Len(f[p]) = 0 THEN "" ELSE f[p][1].tag

\* math.ceil(a / b) for a >= 0, b > 0
ceil(a, b) == (a + b - 1) \div b

abs(x) == IF x < 0 THEN -x ELSE x

----------------------------------------------------------------------------
(* NamdProcess.__init__, lines 35-78, one step per block of the source.    *)
(* A step leaves a call that has already raised as it is.                  *)

\* lines 40-48
InitExe(s, a) ==
    IF ~Ok(s) THEN s
    ELSE IF a.exe = NoneV THEN SetAttr(s, "_exe", findExe(s.fs))
    ELSE IF ~Bound("path", InitLocals) THEN Raise(s, "NameError")
    ELSE IF isfile(s.fs, a.exe) THEN SetAttr(s, "_exe", a.protocol)
    ELSE Raise(s, "IOError")

\* lines 51-54 with the parameter file named <name>.prm
InitNamesPrm(s, a) ==
    IF ~Ok(s) THEN s
    ELSE LET wd == s.self["_work_dir"]
             s1 == SetAttr(s, "_psf_file", Join(wd, a.name, "psf"))
             s2 == SetAttr(s1, "_pdb_file", Join(wd, a.name, "pdb"))
             s3 == SetAttr(s2, "_param_file", Join(wd, a.name, "prm"))
         IN  SetAttr(s3, "_velocity_file", NoneV)

\* lines 51-54
InitNames(s, a) ==
    IF ~Ok(s) THEN s
    ELSE LET wd == s.self["_work_dir"]
             s1 == SetAttr(s, "_psf_file", Join(wd, a.name, "psf"))
             s2 == SetAttr(s1, "_pdb_file", Join(wd, a.name, "pdb"))
             s3 == SetAttr(s2, "_param_file", Join(wd, a.name, "params"))
         IN  SetAttr(s3, "_velocity_file", NoneV)

\* lines 60-69
InitConfigPath(s, a) ==
    IF ~Ok(s) THEN s
    ELSE IF ~s.self["_is_custom"]
         THEN SetAttr(s, "_namd_file", Join(s.self["_work_dir"], a.name, "namd"))
    ELSE IF ~Bound("path", InitLocals) THEN Raise(s, "NameError")
    ELSE IF isfile(s.fs, a.protocol.file) THEN SetAttr(s, "_namd_file", a.protocol.file)
    ELSE IF ~Bound("namd_file", InitLocals) THEN Raise(s, "NameError")
    ELSE Raise(s, "IOError")

\* lines 72-75
InitInputFiles(s) ==
    IF ~Ok(s) THEN s
    ELSE LET s1 == SetAttr(s, "_input_files",
                       <<s.self["_namd_file"], s.self["_psf_file"],
                         s.self["_pdb_file"], s.self["_param_file"]>>)
             box == compute_box_size(s.self["_system"])
         IN  SetAttr(SetAttr(s1, "_box_size", box[1]), "_box_origin", box[2])

----------------------------------------------------------------------------
(* NamdProcess._generate_config_file, lines 160-272.  A configuration line *)
(* is [key, val]; file names in it are relative to the engine's directory. *)

Line(k, v) == [key |-> k, val |-> v]

\* lines 169-209: the part every protocol shares
ConfigHead(s) ==
    LET name == s.self["_name"]
        box == compute_box_size(s.self["_system"])
    IN  <<Line("structure", Rel(name, "psf")), Line("coordinates", Rel(name, "pdb"))>>
        \o (IF s.self["_velocity_file"] # NoneV
            THEN <<Line("velocities", Rel(name, "vel"))>> ELSE <<>>)
        \o <<Line("paraTypeCharmm", "on"), Line("parameters", Rel(name, "params")),
             Line("exclude", "scaled1-4"), Line("switching", "on"),
             Line("switchdist", "10."), Line("cutoff", "12."),
             Line("cellBasisVector1", box[1]), Line("cellBasisVector2", box[1]),
             Line("cellBasisVector3", box[1]), Line("cellOrigin", box[2]),
             Line("wrapAll", "on"), Line("PME", "yes"), Line("PMEGridSpacing", "1."),
             Line("outputName", Rel(name, "_out")), Line("binaryOutput", "no"),
             Line("restartfreq", "500"), Line("dcdfreq", "500"), Line("xstFreq", "500"),
             Line("outputEnergies", "100"), Line("outputTiming", "1000")>>

\* lines 213-214
ConfigMinimisation(s) ==
    <<Line("temperature", s.self["_protocol"].temperature),
      Line("minimize", s.self["_protocol"].steps)>>

\* lines 220-243
ConfigEquilibrationHead(s) ==
    <<Line("set temperature", s.self["_protocol"].temperature_start),
      Line("temperature", "$temperature"),
      Line("timestep", "2."), Line("rigidBonds", "all"), Line("nonbondedFreq", "1"),
      Line("fullElectFrequency", "2"),
      Line("langevin", "on"), Line("langevinDamping", "1."),
      Line("langevinTemp", "$temperature"), Line("langevinHydrogen", "no"),
      Line("langevinPiston", "on"), Line("langevinPistonTarget", "1.01325"),
      Line("langevinPistonPeriod", "100."), Line("langevinPistonDecay", "50."),
      Line("langevinPistonTemp", "$temperature"), Line("useGroupPressure", "yes"),
      Line("useFlexibleCell", "no"), Line("useConstantArea", "no")>>

\* Protocol.isConstantTemp()
isConstantTemp(p) == p.temperature_start = p.temperature_end

\* line 254: the runtime is counted in units of 0.001, the timestep is 0.002
Steps(p) == ceil(p.runtime, 2)

\* lines 260-266
ConfigReassign(p) ==
    LET steps == Steps(p)
        denom == abs(p.temperature_end - p.temperature_start)
        temp_step == ceil(steps, denom)
    IN  <<Line("reassignFreq", steps), Line("reassignTemp", p.temperature_start),
          Line("reassignIncr", temp_step), Line("reassignHold", p.temperature_end)>>

\* lines 246-269: [err, lines], the exception the block raises or "none", and
\* the lines it has written by then
ConfigEquilibrationTail(s) ==
    LET p == s.self["_protocol"]
        min == <<Line("minimize", 1000)>>
    IN  IF ~Bound("protocol", MethodLocals)                  \* line 246
        THEN [err |-> "NameError", lines |-> <<>>]
        ELSE IF ~HasAttr(s, "_protcol")                       \* line 254
        THEN [err |-> "AttributeError", lines |-> min]
        ELSE IF isConstantTemp(p)                             \* line 257
        THEN [err |-> "none", lines |-> min \o <<Line("run", Steps(p))>>]
        ELSE IF ~HasAttr(s, "protcol") \/ ~HasAttr(s, "protocol")   \* line 260
        THEN [err |-> "AttributeError", lines |-> min]
        ELSE [err |-> "none",
              lines |-> min \o ConfigReassign(p) \o <<Line("run", Steps(p))>>]

\* The whole method.  The file is opened for writing (created or truncated)
\* and written through a buffer; when the method raises, the file is never
\* closed, and the buffered lines reach the disk only if the abandoned file
\* object is finalised (flushed).
generate_config_file(s, flushed) ==
    LET file == s.self["_namd_file"]
        type == s.self["_protocol"].type
        s0 == [s EXCEPT !.gen = @ + 1, !.opens = @ + 1,
                        !.fs = WriteFile(s.fs, file, <<>>)]
    IN  IF type = "MINIMISATION"
        THEN [s0 EXCEPT !.fs = WriteFile(s.fs, file, ConfigHead(s) \o ConfigMinimisation(s))]
        ELSE IF type = "EQUILIBRATION"
        THEN LET tail == ConfigEquilibrationTail(s)
                 text == ConfigHead(s) \o ConfigEquilibrationHead(s) \o tail.lines
             IN  IF tail.err = "none"
                 THEN [s0 EXCEPT !.fs = WriteFile(s.fs, file, text)]
                 ELSE [s0 EXCEPT !.err = tail.err,
                                 !.fs = WriteFile(s.fs, file, IF flushed THEN text ELSE <<>>)]
        ELSE [s0 EXCEPT !.fs = WriteFile(s.fs, file, ConfigHead(s))]

----------------------------------------------------------------------------
(* NamdProcess._setup, lines 80-158. *)

\* lines 86-91: CharmmPSF.writeToFile emits the topology and, beside it, the
\* parameter file; PDB2.writeToFile emits the coordinates.
SetupWriteTopology(s) ==
    IF ~Ok(s) THEN s
    ELSE LET sys == s.self["_system"]
             f1 == WriteFile(s.fs, s.self["_psf_file"], sys.psf)
             f2 == WriteFile(f1, s.self["_param_file"], <<>>)
         IN  [s EXCEPT !.fs = WriteFile(f2, s.self["_pdb_file"], <<>>)]

\* PDB2.writeVelocityFile(file): writes the file and returns True only if every
\* atom of the system has a velocity.
writeVelocityFile(sys) == sys.velocities

\* lines 98-107 with line 107 left out
SetupVelocitiesUnlisted(s) ==
    IF ~Ok(s) THEN s
    ELSE LET velocity_file == ReplaceExt(s.self["_pdb_file"], "vel")
             has_velocities == writeVelocityFile(s.self["_system"])
         IN  IF has_velocities
             THEN SetAttr([s EXCEPT !.fs = WriteFile(s.fs, velocity_file, <<>>)],
                          "_velocity_file", velocity_file)
             ELSE s

\* lines 98-107
SetupVelocities(s) ==
    IF ~Ok(s) THEN s
    ELSE LET velocity_file == ReplaceExt(s.self["_pdb_file"], "vel")
             has_velocities == writeVelocityFile(s.self["_system"])
         IN  IF has_velocities
             THEN LET s1 == [s EXCEPT !.fs = WriteFile(s.fs, velocity_file, <<>>)]
                      s2 == SetAttr(s1, "_velocity_file", velocity_file)
                  IN  SetAttr(s2, "_input_files",
                              Append(s2.self["_input_files"], velocity_file))
             ELSE s

\* "\n%8d <tag>: ...\n" % 0
EmptyRecord(t) ==
    <<[tag |-> "", count |-> [width |-> 0, value |-> 0]], [tag |-> t, count |-> FmtD(8, 0)]>>

\* lines 112-150
SetupPsfRecords(s) ==
    IF ~Ok(s) THEN s
    ELSE LET psf == s.self["_psf_file"]
             line == readline(s.fs, psf)
             has_donors == Contains(line, "!NDON")
             has_acceptors == ~has_donors /\ Contains(line, "NACC")
             has_non_bonded == ~has_donors /\ ~has_acceptors /\ Contains(line, "NNB")
             f1 == IF ~has_donors THEN AppendFile(s.fs, psf, EmptyRecord("!NDON")) ELSE s.fs
             f2 == IF ~has_acceptors THEN AppendFile(f1, psf, EmptyRecord("!NACC")) ELSE f1
             f3 == IF ~has_acceptors THEN AppendFile(f2, psf, EmptyRecord("!NNB")) ELSE f2
         IN  [s EXCEPT !.fs = f3]

\* lines 154-155
SetupConfig(s, flushed) ==
    IF ~Ok(s) THEN s
    ELSE IF ~s.self["_is_custom"] THEN generate_config_file(s, flushed)
    ELSE s

setup(s, flushed) ==
    SetupConfig(SetupPsfRecords(SetupVelocities(SetupWriteTopology(s))), flushed)

\* NamdProcess(system, protocol, exe, name, work_dir) on filesystem f
Constructor(a, f, flushed) ==
    setup(InitInputFiles(InitConfigPath(InitNames(InitExe(ProcessInit(a, f), a), a), a)),
          flushed)

----------------------------------------------------------------------------
(* NamdProcess.start, lines 278-294. *)

\* Sire.Base.Process.run(exe, config, stdout, stderr), called in directory d:
\* the invocation as the engine sees it.
RunArgs(s, d) ==
    [exe |-> s["_exe"],
     config |-> Resolve(d, Rel(s["_name"], "namd")),
     out |-> Resolve(d, Rel(s["_name"], "out")),
     err |-> Resolve(d, Rel(s["_name"], "err")),
     cwd |-> d]

\* What a run leaves on disk: the captured streams and, if the engine got that
\* far, its output coordinates <name>_out.coor.
RunFiles(f, inv, s, coor) ==
    LET f1 == WriteFile(WriteFile(f, inv.out, <<>>), inv.err, <<>>)
    IN  IF coor THEN WriteFile(f1, Path(inv.cwd, s["_name"], "_out.coor"), <<>>) ELSE f1

\* line 286: os.chdir(self._work_dir)
StartDir(s) == s["_work_dir"]

\* start() without its line 294
RestoreDirOmitted(dir, now) == now

\* line 294: os.chdir(dir)
RestoreDir(dir, now) == dir

----------------------------------------------------------------------------
(* NamdProcess.getSystem, lines 296-307. *)

\* The engine's output coordinates, "%s/%s_out.coor" % (work_dir, name).
OutCoor(s) == Path(s["_work_dir"], s["_name"], "_out.coor")

\* lines 303-304 with the output coordinates left out of the list
getSystemFilesInputsOnly(s) == <<s["_psf_file"], s["_pdb_file"], s["_param_file"]>>

\* lines 303-304
getSystemFiles(s) == <<OutCoor(s), s["_psf_file"], s["_pdb_file"], s["_param_file"]>>

\* Sire.IO.MoleculeParser.read(files): the system parsed from all the files
\* together; a file that cannot be opened is an error.
MoleculeParserRead(f, files) ==
    IF \A i \in 1..Len(files) : isfile(f, files[i])
    THEN [err |-> "none", system |-> [kind |-> "system", files |-> files]]
    ELSE [err |-> "SireError", system |-> NoneV]

----------------------------------------------------------------------------
(* The state machine. *)

NoGet == [called |-> FALSE, coor |-> FALSE, raised |-> FALSE, system |-> NoneV]

NoAlign == [n0 |-> 0, n1 |-> 0, prematch |-> <<>>, status |-> "idle", mapping |-> <<>>]

NoAttrs == [a \in {} |-> NoneV]

NoStart == [before |-> "", after |-> "", raised |-> FALSE]

Args ==
    [system : Systems, protocol : Protocols, exe : {NoneV, ExeOk, ExeMissing},
     name : Names, work_dir : WorkDirs]

NoArgs == [system |-> [velocities |-> FALSE, psf |-> <<>>],
           protocol |-> [type |-> "none"], exe |-> NoneV, name |-> "", work_dir |-> ""]

Init ==
    /\ fs = InitFs
    /\ cwd = "home"
    /\ phase = "new"
    /\ args = NoArgs
    /\ self = NoAttrs
    /\ error = "none"
    /\ genCalls = 0
    /\ cfgOpens = 0
    /\ launches = <<>>
    /\ lastStart = NoStart
    /\ lastGet = NoGet
    /\ align = NoAlign

\* p = NamdProcess(system, protocol, exe, name, work_dir)
Construct ==
    /\ phase = "new"
    /\ \E a \in Args, flushed \in BOOLEAN :
         LET r == Constructor(a, fs, flushed)
         IN  /\ args' = a
             /\ fs' = r.fs
             /\ self' = r.self
             /\ error' = r.err
             /\ genCalls' = r.gen
             /\ cfgOpens' = r.opens
             /\ phase' = IF Ok(r) THEN "constructed" ELSE "failed"
    /\ UNCHANGED <<cwd, launches, lastStart, lastGet, align>>

\* p.start(), the engine launching (and then running to its end)
StartOk ==
    /\ phase = "constructed"
    /\ Len(launches) < MaxStarts
    /\ \E coor \in BOOLEAN :
         LET dir == cwd
             inv == RunArgs(self, StartDir(self))
         IN  /\ launches' = Append(launches, inv)
             /\ fs' = RunFiles(fs, inv, self, coor)
             /\ cwd' = RestoreDir(dir, StartDir(self))
             /\ lastStart' = [before |-> dir, after |-> cwd', raised |-> FALSE]
    /\ error' = "none"
    /\ UNCHANGED <<phase, args, self, genCalls, cfgOpens, lastGet, align>>

\* p.start(), Process.run raising: line 294 is not reached
StartRaise ==
    /\ phase = "constructed"
    /\ Len(launches) < MaxStarts
    /\ LET dir == cwd
           inv == RunArgs(self, StartDir(self))
       IN  /\ launches' = Append(launches, inv)
           /\ cwd' = StartDir(self)
           /\ lastStart' = [before |-> dir, after |-> cwd', raised |-> TRUE]
    /\ error' = "SireError"
    /\ UNCHANGED <<fs, phase, args, self, genCalls, cfgOpens, lastGet, align>>

\* The caller moves to another directory between calls.
Chdir ==
    /\ phase = "constructed"
    /\ Len(launches) < MaxStarts
    /\ \E d \in Dirs \ {cwd} : cwd' = d
    /\ UNCHANGED <<fs, phase, args, self, error, genCalls, cfgOpens, launches, lastStart,
                   lastGet, align>>

\* p.getSystem()
GetSystem ==
    /\ phase = "constructed"
    /\ LET r == MoleculeParserRead(fs, getSystemFiles(self))
       IN  /\ lastGet' = [called |-> TRUE, coor |-> isfile(fs, OutCoor(self)),
                          raised |-> r.err # "none", system |-> r.system]
           /\ error' = r.err
    /\ UNCHANGED <<fs, cwd, phase, args, self, genCalls, cfgOpens, launches, lastStart, align>>

Next == Construct \/ StartOk \/ StartRaise \/ Chdir \/ GetSystem

Spec == Init /\ [][Next]_vars

----------------------------------------------------------------------------
(* BioSimSpace.Align.matchAtoms(molecule0, molecule1, prematch=...), as the *)
(* tests call it.  A molecule is its number of atoms, indexed from 0; a     *)
(* prematch is a dict from atom indices of molecule0 to atom indices of     *)
(* molecule1; the mapping returned is such a dict too.                      *)

MaxAtoms == 2           \* atoms of a molecule
MaxPrematch == 2        \* pairs of a prematch

\* The indices a caller may write, in range or not.
Indices == -1..MaxAtoms

Atoms(n) == 0..(n - 1)

Dicts(K, V, n) == UNION {[D -> V] : D \in {S \in SUBSET K : Cardinality(S) <= n}}

Prematches == Dicts(Indices, Indices, MaxPrematch)

Values(f) == {f[k] : k \in DOMAIN f}

Injective(f) == \A j, k \in DOMAIN f : f[j] = f[k] => j = k

\* The validation with the values left unchecked
PrematchKeysInRange(n0, n1, pm) == \A k \in DOMAIN pm : k \in Atoms(n0)

\* Every key is an atom index of molecule0, every value one of molecule1.
PrematchInRange(n0, n1, pm) ==
    \A k \in DOMAIN pm : k \in Atoms(n0) /\ pm[k] \in Atoms(n1)

\* The atoms the search may still match: those the prematch has not used.
FreeAtoms0(n0, pm) == Atoms(n0) \ DOMAIN pm

\* The search matching against atoms the prematch has already used
FreeAtoms1Any(n1, pm) == Atoms(n1)

FreeAtoms1(n1, pm) == Atoms(n1) \ Values(pm)

\* The mappings the search can return: the prematch, extended by an injective
\* matching of atoms it has not used.
Mappings(n0, n1, pm) ==
    {pm @@ g : g \in {h \in Dicts(FreeAtoms0(n0, pm), FreeAtoms1(n1, pm), MaxAtoms) :
                         Injective(h)}}

\* The outcomes of a call.  What becomes of a prematch that sends two atoms to
\* the same atom is not laid down: it may be rejected or searched from.
matchAtoms(n0, n1, pm) ==
    IF ~PrematchInRange(n0, n1, pm)
    THEN {[status |-> "ValueError", mapping |-> <<>>]}
    ELSE {[status |-> "returned", mapping |-> f] : f \in Mappings(n0, n1, pm)}
         \cup (IF Injective(pm) THEN {} ELSE {[status |-> "ValueError", mapping |-> <<>>]})

AlignInit ==
    /\ fs = InitFs
    /\ cwd = "home"
    /\ phase = "new"
    /\ args = NoArgs
    /\ self = NoAttrs
    /\ error = "none"
    /\ genCalls = 0
    /\ cfgOpens = 0
    /\ launches = <<>>
    /\ lastStart = NoStart
    /\ lastGet = NoGet
    /\ align \in [n0 : 1..MaxAtoms, n1 : 1..MaxAtoms, prematch : Prematches,
                  status : {"idle"}, mapping : {<<>>}]

\* mapping = BSS.Align.matchAtoms(m0, m1, prematch=prematch)
MatchAtoms ==
    /\ align.status = "idle"
    /\ \E o \in matchAtoms(align.n0, align.n1, align.prematch) :
           align' = [align EXCEPT !.status = o.status, !.mapping = o.mapping]
    /\ UNCHANGED <<fs, cwd, phase, args, self, error, genCalls, cfgOpens, launches,
                   lastStart, lastGet>>

AlignNext == MatchAtoms

AlignSpec == AlignInit /\ [][AlignNext]_vars

----------------------------------------------------------------------------
(* Vocabulary of the properties. *)

Range(q) == {q[i] : i \in 1..Len(q)}

Called == phase # "new"

Constructed == phase = "constructed"

IsCustom == args.protocol.type = "CUSTOM"

\* The paths of the naming convention, for the call's work_dir and name.
Conv(e) == Join(args.work_dir, args.name, e)

\* The arguments name only files that exist.
ExeGiven == args.exe # NoneV

ExeExists == ExeGiven /\ isfile(InitFs, args.exe)

CustomExists == IsCustom /\ isfile(InitFs, args.protocol.file)

\* _setup got as far as the input files (the constructor reached line 78).
SetupRan == "_box_origin" \in DOMAIN self

Sections == {"!NDON", "!NACC", "!NNB"}

Occurrences(q, t) == Cardinality({i \in 1..Len(q) : q[i].tag = t})

\* The configuration file as it is on disk.
Config == IF isfile(fs, self["_namd_file"]) THEN fs[self["_namd_file"]] ELSE <<>>

HasKey(q, k) == \E i \in 1..Len(q) : q[i].key = k

\* The configuration keys whose value is a file name.
FileKeys == {"structure", "coordinates", "parameters", "velocities"}

----------------------------------------------------------------------------
(* C1  The configuration file is generated if and only if no custom one    *)
(* was supplied: a call with an existing custom file yields a process      *)
(* whose config file is that file, untouched, with no call of              *)
(* _generate_config_file; any other call (with a usable executable) writes *)
(* <work_dir>/<name>.namd exactly once.  (Calls that leave the executable  *)
(* to be found on $PATH.)                                                  *)
C1_GeneratedIffNotCustom ==
    (Called /\ ~ExeGiven /\ (IsCustom => CustomExists)) =>
        IF IsCustom
        THEN /\ genCalls = 0
             /\ Constructed
             /\ self["_namd_file"] = args.protocol.file
             /\ fs[args.protocol.file] = InitFs[args.protocol.file]
        ELSE /\ genCalls = 1
             /\ cfgOpens = 1
             /\ isfile(fs, Conv("namd"))

(* C2  A call naming an executable or a custom configuration that is not   *)
(* an existing file fails with IOError, and has written no file by then.   *)
C2_MissingFileIsIOError ==
    (Called /\ ((ExeGiven /\ ~ExeExists) \/ (IsCustom /\ ~CustomExists))) =>
        /\ error = "IOError"
        /\ fs = InitFs

(* C3  After _setup, a topology file that Sire wrote with each section at  *)
(* most once holds each of !NDON, !NACC and !NNB exactly once.             *)
C3_EachSectionOnce ==
    (Constructed /\ \A t \in Sections : Occurrences(args.system.psf, t) <= 1) =>
        \A t \in Sections : Occurrences(fs[self["_psf_file"]], t) = 1

(* C4  Whenever start() returns, the current directory is the one in       *)
(* effect before the call, and every engine invocation so far ran in the   *)
(* process's work_dir, however many start() calls went before.             *)
C4_CwdRestored ==
    /\ (lastStart # NoStart /\ ~lastStart.raised) => lastStart.after = lastStart.before
    /\ \A i \in 1..Len(launches) : launches[i].cwd = self["_work_dir"]

\* start() has returned normally for the last allowed time, having been called
\* from a directory other than work_dir.
C4_Witness ==
    /\ Len(launches) = MaxStarts
    /\ ~lastStart.raised
    /\ error = "none"
    /\ lastStart.before # self["_work_dir"]
    /\ lastStart.after = lastStart.before

(* C5  Every process built from usable arguments, with a generated         *)
(* configuration or with an existing custom one, exists and is started     *)
(* with its own files: the configuration start() passes is _namd_file, the *)
(* first of input_files(), and the captures are <work_dir>/<name>.out and  *)
(* <work_dir>/<name>.err.                                                   *)
C5_StartPassesOwnConfig ==
    (Called /\ ~ExeGiven /\ args.protocol.type \in {"MINIMISATION", "CUSTOM"}
            /\ (IsCustom => CustomExists)) =>
        /\ Constructed
        /\ LET inv == RunArgs(self, StartDir(self))
           IN  /\ inv.config = self["_namd_file"]
               /\ inv.config = self["_input_files"][1]
               /\ inv.out = Conv("out")
               /\ inv.err = Conv("err")
        /\ \A i \in 1..Len(launches) : launches[i].config = self["_namd_file"]

(* C6  The executable is the one the caller chose: a call naming an        *)
(* existing executable succeeds with _exe that path; a call naming none    *)
(* has the namd2 of $PATH.                                                 *)
C6_ExeIsCallersChoice ==
    (Called /\ args.protocol.type = "MINIMISATION") =>
        /\ ExeExists => (Constructed /\ self["_exe"] = args.exe)
        /\ ~ExeGiven => (Constructed /\ self["_exe"] = PathNamd2)

(* C7  For an equilibration protocol of any runtime the configuration is   *)
(* generated to its end: its last line is "run <steps>" with steps the     *)
(* runtime divided by 0.002, rounded up, after a "minimize 1000" line.     *)
C7_EquilibrationRunSteps ==
    (Called /\ ~ExeGiven /\ args.protocol.type = "EQUILIBRATION") =>
        /\ error = "none"
        /\ Len(Config) > 0
        /\ Config[Len(Config)] = Line("run", ceil(args.protocol.runtime, 2))
        /\ \E i \in 1..Len(Config) : Config[i] = Line("minimize", 1000)

(* C8  A generated equilibration configuration holds the reassignment      *)
(* block (reassignFreq, reassignTemp, reassignIncr, reassignHold) exactly  *)
(* when temperature_start differs from temperature_end.                    *)
C8_ReassignIffHeating ==
    (Called /\ ~ExeGiven /\ args.protocol.type = "EQUILIBRATION") =>
        LET p == args.protocol
            block == /\ HasKey(Config, "reassignFreq")
                     /\ \E i \in 1..Len(Config) :
                            Config[i] = Line("reassignTemp", p.temperature_start)
                     /\ HasKey(Config, "reassignIncr")
                     /\ \E i \in 1..Len(Config) :
                            Config[i] = Line("reassignHold", p.temperature_end)
            none == \A k \in {"reassignFreq", "reassignTemp", "reassignIncr", "reassignHold"} :
                        ~HasKey(Config, k)
        IN  IF p.temperature_start # p.temperature_end THEN block ELSE none

(* C9  The velocity file is tracked consistently.  If every atom has a     *)
(* velocity, <work_dir>/<name>.vel is written, is _velocity_file, is the   *)
(* fifth and last entry of input_files(), and the generated configuration  *)
(* has the line "velocities <name>.vel"; otherwise there is no such file,  *)
(* _velocity_file is None, input_files() is [config, psf, pdb, params] and *)
(* the configuration has no velocities line.                               *)
C9_VelocityFileTracked ==
    LET files == self["_input_files"]
        four == <<self["_namd_file"], Conv("psf"), Conv("pdb"), Conv("params")>>
    IN  /\ SetupRan =>
            IF args.system.velocities
            THEN /\ isfile(fs, Conv("vel"))
                 /\ self["_velocity_file"] = Conv("vel")
                 /\ files = Append(four, Conv("vel"))
            ELSE /\ ~isfile(fs, Conv("vel"))
                 /\ self["_velocity_file"] = NoneV
                 /\ files = four
        /\ Constructed =>
            (args.system.velocities <=>
                \E i \in 1..Len(Config) : Config[i] = Line("velocities", Rel(args.name, "vel")))
        /\ Constructed => (args.system.velocities <=> HasKey(Config, "velocities"))

\* A process built from a system whose atoms all have velocities.
C9_Witness ==
    /\ Constructed
    /\ args.system.velocities
    /\ Len(self["_input_files"]) = 5
    /\ HasKey(Config, "velocities")

(* C10  After construction every path of input_files() is one of the       *)
(* convention's (<name>.psf, .pdb, .params, .vel in work_dir, and the      *)
(* config file), names a file that exists and that the call wrote (or, the *)
(* custom config, that the caller supplied), and every file the generated  *)
(* configuration refers to, seen from work_dir, is one of them.            *)
C10_FileSetConsistent ==
    Constructed =>
        LET files == Range(self["_input_files"])
        IN  /\ files \subseteq
                   {self["_namd_file"], Conv("psf"), Conv("pdb"), Conv("params"), Conv("vel")}
            /\ {self["_namd_file"], Conv("psf"), Conv("pdb"), Conv("params")} \subseteq files
            /\ self["_namd_file"] = IF IsCustom THEN args.protocol.file ELSE Conv("namd")
            /\ \A p \in files :
                   /\ isfile(fs, p)
                   /\ (isfile(InitFs, p) => (IsCustom /\ p = args.protocol.file))
            /\ \A i \in 1..Len(Config) :
                   Config[i].key \in FileKeys =>
                       Resolve(self["_work_dir"], Config[i].val) \in files

\* A process with a generated configuration and all five input files.
C10_Witness ==
    /\ Constructed
    /\ ~IsCustom
    /\ Len(self["_input_files"]) = 5
    /\ \A k \in FileKeys : HasKey(Config, k)
    /\ args.name = "sim"

(* C11  getSystem() reads <work_dir>/<name>_out.coor together with the     *)
(* psf, pdb and params files and returns the system parsed from them; with *)
(* no output coordinates on disk it raises and returns nothing; either way *)
(* the recorded file names and the input list are what construction left.  *)
C11_GetSystemNeedsOutput ==
    lastGet.called =>
        /\ lastGet.raised <=> ~lastGet.coor
        /\ lastGet.raised => lastGet.system = NoneV
        /\ ~lastGet.raised =>
               lastGet.system = [kind |-> "system",
                                 files |-> <<Join(args.work_dir, args.name, "_out.coor"),
                                             Conv("psf"), Conv("pdb"), Conv("params")>>]
        /\ self["_psf_file"] = Conv("psf")
        /\ self["_pdb_file"] = Conv("pdb")
        /\ self["_param_file"] = Conv("params")
        /\ self["_input_files"] =
               <<Conv("namd"), Conv("psf"), Conv("pdb"), Conv("params")>>
               \o (IF args.system.velocities THEN <<Conv("vel")>> ELSE <<>>)

\* getSystem() called before the engine has produced anything: it raised.
C11_Witness ==
    /\ lastGet.called
    /\ ~lastGet.coor
    /\ lastGet.raised
    /\ error = "SireError"
    /\ launches = <<>>

(* C14  The working directory is restored on every exit path of start():   *)
(* when the launch raises, the directory after the call is the directory   *)
(* before it.                                                              *)
C14_CwdRestoredOnFailure ==
    (lastStart # NoStart /\ lastStart.raised) => lastStart.after = lastStart.before

\* Every index of the prematch is an atom of its molecule.
AllInRange ==
    \A k \in DOMAIN align.prematch :
        /\ 0 <= k /\ k < align.n0
        /\ 0 <= align.prematch[k] /\ align.prematch[k] < align.n1

(* C12  As stated: for every prematch whose keys are atom indices of        *)
(* molecule 0 and whose values are atom indices of molecule 1, matchAtoms   *)
(* returns a mapping that contains every prematch pair and is injective.    *)
C12_PrematchKept ==
    (align.status # "idle" /\ AllInRange) =>
        /\ align.status = "returned"
        /\ \A k \in DOMAIN align.prematch :
               k \in DOMAIN align.mapping /\ align.mapping[k] = align.prematch[k]
        /\ Injective(align.mapping)

(* C12, amended: the same for every such prematch that is itself injective; *)
(* the mapping then is an injective partial map between the atom indices.   *)
C12_InjectivePrematchKept ==
    (/\ align.status # "idle"
     /\ AllInRange
     /\ Injective(align.prematch)) =>
        /\ align.status = "returned"
        /\ \A k \in DOMAIN align.prematch :
               k \in DOMAIN align.mapping /\ align.mapping[k] = align.prematch[k]
        /\ Injective(align.mapping)
        /\ DOMAIN align.mapping \subseteq Atoms(align.n0)
        /\ Values(align.mapping) \subseteq Atoms(align.n1)

\* A mapping returned for a prematch of one pair, extended by a second pair.
C12_Witness ==
    /\ align.status = "returned"
    /\ Cardinality(DOMAIN align.prematch) = 1
    /\ Cardinality(DOMAIN align.mapping) = 2
    /\ \A k \in DOMAIN align.prematch : align.mapping[k] = align.prematch[k]

(* C13  A prematch with an index outside the range of either molecule      *)
(* (negative or not below the atom count, as key or as value) makes         *)
(* matchAtoms raise ValueError and return no mapping.                       *)
C13_InvalidPrematchRejected ==
    (align.status # "idle" /\ ~AllInRange) =>
        /\ align.status = "ValueError"
        /\ align.mapping = <<>>

\* Rejected for a value that is no atom of molecule 1, under a key that is an
\* atom of molecule 0.
C13_Witness ==
    /\ align.status = "ValueError"
    /\ \E k \in DOMAIN align.prematch :
           /\ k \in Atoms(align.n0)
           /\ align.prematch[k] >= align.n1

====
